---- MODULE Spec2Model ----
(***************************************************************************)
(* Model of the Image Generator API (src/main.py): the procedural SVG      *)
(* synthesis svg_from_prompt, the POST /api/generate handler               *)
(* generate_image and the GET /api/generations handler list_generations,   *)
(* together with the "generation" collection they write and read.          *)
(*                                                                         *)
(* Strings are sequences of one-character strings.  Optional values are    *)
(* <<>> (None) or <<v>>.  One sequential client sends a request (inbox),   *)
(* the handler runs atomically and leaves its response in outbox, the      *)
(* client takes the response.  The server process may restart between two  *)
(* calls, which re-draws the per-process string-hash salt and re-reads the *)
(* database configuration.                                                 *)
(***************************************************************************)
EXTENDS Integers, Sequences, FiniteSets, TLC

VARIABLES
    store,      \* the "generation" collection, in insertion order
    nextId,     \* the next identifier / creation stamp the store assigns
    hashSalt,   \* this process's string-hash randomisation key
    db,         \* "up" or "none": database.db of this process
    inbox,      \* the request in flight to the server, or NoMsg
    outbox      \* the response in flight to the client, or NoMsg

vars == <<store, nextId, hashSalt, db, inbox, outbox>>

----------------------------------------------------------------------------
(* Bounds of the model                                                     *)

\* longest prompt the synthesis specification sends
MaxPromptLen == 2
\* explicit seeds range over -MaxSeed .. MaxSeed
MaxSeed == 1
\* most records the collection holds (an insert into a full collection fails)
MaxStore == 2
\* list limits range over 1 .. MaxLimit
MaxLimit == 2
\* width, in bits, of the seed word: stands for the 32 of 2**32, which is
\* beyond the integers the model checker computes with
SeedBits == 16

----------------------------------------------------------------------------
(* Values                                                                  *)

None == <<>>
Some(v) == <<v>>

NoMsg == [op |-> "none"]
NoImage == <<>>

Chars == {" ", "a", "<"}
Whitespace == {" "}

Min(a, b) == IF a <= b THEN a ELSE b
Abs(x) == IF x >= 0 THEN x ELSE -x
Range(s) == {s[i] : i \in DOMAIN s}

----------------------------------------------------------------------------
(* str.strip(), str.replace(), hash(str)                                   *)

RECURSIVE lstrip(_)
lstrip(s) ==
    IF s # <<>> /\ Head(s) \in Whitespace THEN lstrip(Tail(s)) ELSE s

RECURSIVE rstrip(_)
rstrip(s) ==
    IF s # <<>> /\ s[Len(s)] \in Whitespace
    THEN rstrip(SubSeq(s, 1, Len(s) - 1))
    ELSE s

strip(s) == rstrip(lstrip(s))

\* prompt.replace("<", "&lt;").replace(">", "&gt;")
RECURSIVE safe_prompt(_)
safe_prompt(s) ==
    IF s = <<>> THEN <<>>
    ELSE (CASE Head(s) = "<" -> <<"&", "l", "t", ";">>
            [] Head(s) = ">" -> <<"&", "g", "t", ";">>
            [] OTHER -> <<Head(s)>>) \o safe_prompt(Tail(s))

CharCode(c) ==
    CASE c = " " -> 32
      [] c = "a" -> 97
      [] c = "<" -> 60
      [] c = ">" -> 62
      [] OTHER -> 63

\* The builtin hash of a str: a keyed hash whose key is drawn when the
\* process starts; the hash of the empty string is 0; the result is signed.
\* The keyed hash is abstracted by a salted polynomial hash.
HashSalts == {0, 1}
HashSpan == 2 ^ (SeedBits + 2)

RECURSIVE HashAcc(_, _)
HashAcc(h, s) ==
    IF s = <<>> THEN h
    ELSE HashAcc((h * 31 + CharCode(Head(s))) % HashSpan, Tail(s))

hash(s, salt) ==
    IF s = <<>> THEN 0
    ELSE HashAcc(7919 * (salt + 1), s) - (HashSpan \div 2)

----------------------------------------------------------------------------
(* random.Random: the generator is abstracted by a linear congruential     *)
(* stream; what the model keeps is that the stream is a function of the    *)
(* seed alone, that an int seed is used by absolute value, and the range   *)
(* and the empty-range error of randint.                                   *)

RndMod == 65537
RndMul == 75
RndInc == 74

Random(seed) == Abs(seed) % RndMod

Step(st) == (st * RndMul + RndInc) % RndMod

\* rnd.randint(a, b): ValueError when the range is empty
randintOffByOne(st, a, b) ==
    IF a > b THEN [ok |-> FALSE, val |-> 0, st |-> st]
    ELSE [ok |-> TRUE, val |-> a + (Step(st) % (b - a + 2)), st |-> Step(st)]

randint(st, a, b) ==
    IF a > b THEN [ok |-> FALSE, val |-> 0, st |-> st]
    ELSE [ok |-> TRUE, val |-> a + (Step(st) % (b - a + 1)), st |-> Step(st)]

\* rnd.choice(seq)
choice(st, seq) ==
    [val |-> seq[1 + (Step(st) % Len(seq))], st |-> Step(st)]

\* rnd.uniform(a, b) = a + (b - a) * random(), in thousandths
uniform(st, a, b) ==
    [val |-> a + ((b - a) * Step(st)) \div RndMod, st |-> Step(st)]

----------------------------------------------------------------------------
(* svg_from_prompt                                                         *)

NumShapes == 18
MinRadius == 20
LabelMax == 48
FontDiv == 18

colors == <<"#8b5cf6", "#06b6d4", "#ec4899", "#f59e0b", "#10b981", "#3b82f6">>
bgChoices == <<"#0f172a", "#111827", "#0b1020", "#0a0f1f">>
bgDefault == "#0b1220"

\* int(m * 0.25): truncation towards zero
IntQuarter(m) == IF m >= 0 THEN m \div 4 ELSE -((-m) \div 4)

\* seed or hash(prompt) % (2**32 - 1): the argument of random.Random
SeedArg(prompt, seed, salt) ==
    IF seed # None /\ seed[1] # 0
    THEN seed[1]
    ELSE hash(prompt, salt) % (2 ^ SeedBits - 1)

\* the loop over range(18); raises when a randint raises
RECURSIVE ShapeLoop(_, _, _, _)
ShapeLoop(st, n, width, height) ==
    IF n = 0 THEN [ok |-> TRUE, shapes |-> <<>>]
    ELSE
      LET cx == randint(st, 0, width)
          cy == randint(cx.st, 0, height)
          r == randint(cy.st, MinRadius, IntQuarter(Min(width, height)))
          color == choice(r.st, colors)
          opacity == uniform(color.st, 200, 800)
          rest == ShapeLoop(opacity.st, n - 1, width, height)
      IN  IF ~cx.ok \/ ~cy.ok \/ ~r.ok \/ ~rest.ok
          THEN [ok |-> FALSE, shapes |-> <<>>]
          ELSE [ok |-> TRUE,
                shapes |-> <<[cx |-> cx.val, cy |-> cy.val, r |-> r.val,
                              fill |-> color.val,
                              fill_opacity |-> opacity.val]>> \o rest.shapes]

\* "data:image/svg+xml;base64," + base64 of the document: the prefix
\* followed by the encoded document (base64 is one-to-one)
DataUrl(svg) == <<"data:image/svg+xml;base64,", svg>>

\* the body of svg_from_prompt once the generator rnd is constructed
Render(rnd, prompt, width, height) ==
    LET bg == IF prompt # <<>> /\ Len(prompt) % 2 = 0
              THEN choice(rnd, bgChoices)
              ELSE [val |-> bgDefault, st |-> rnd]
        loop == ShapeLoop(bg.st, NumShapes, width, height)
        label == safe_prompt(prompt)
    IN  IF ~loop.ok
        THEN [ok |-> FALSE, url |-> NoImage]
        ELSE [ok |-> TRUE,
              url |-> DataUrl([width |-> width, height |-> height,
                               bg |-> bg.val, shapes |-> loop.shapes,
                               font_size |-> Min(width, height) \div FontDiv,
                               text |-> SubSeq(label, 1, Min(LabelMax, Len(label)))])]

svg_from_prompt(prompt, seed, width, height, salt) ==
    Render(Random(SeedArg(prompt, seed, salt)), prompt, width, height)

----------------------------------------------------------------------------
(* The storage collaborator (database.create_document, get_documents)      *)

\* create_document("generation", gen): raises when the database is not
\* available or the write fails; otherwise stores the record with its
\* identifier and creation stamp and returns the identifier as a string
create_document(st, id, gen, outcome) ==
    IF outcome = "ok"
    THEN [raised |-> FALSE, id |-> ToString(id),
          store |-> Append(st, [_id |-> id, created_at |-> id] @@ gen)]
    ELSE [raised |-> TRUE, id |-> "None", store |-> st]

\* what an insert attempted by this process can do
InsertOutcomes ==
    IF db = "none" THEN {"unavailable"}
    ELSE {"write_error"} \cup (IF Len(store) < MaxStore THEN {"ok"} ELSE {})

\* get_documents("generation", {}, limit=limit): up to limit records of the
\* collection, in the collection's own (insertion) order
get_documents(st, limit) == SubSeq(st, 1, Min(limit, Len(st)))

\* what a query made by this process can do
QueryOutcomes == IF db = "none" THEN {"unavailable"} ELSE {"ok", "query_error"}

----------------------------------------------------------------------------
(* generate_image                                                          *)

\* not req.prompt or len(req.prompt.strip()) == 0
RejectsEmptyOnly(prompt) == prompt = <<>>

Rejects(prompt) == prompt = <<>> \/ Len(strip(prompt)) = 0

\* the Generation record built from the request and the image
GenerationRawPrompt(req, image_data_url) ==
    [prompt |-> req.prompt, style |-> req.style, seed |-> req.seed,
     width |-> req.width, height |-> req.height,
     image_data_url |-> image_data_url, tags |-> None]

Generation(req, image_data_url) ==
    [prompt |-> strip(req.prompt), style |-> req.style, seed |-> req.seed,
     width |-> req.width, height |-> req.height,
     image_data_url |-> image_data_url, tags |-> None]

\* inserted_id after the try/except around the insert
InsertedIdNoFallback(ins) == ins.id

InsertedId(ins) == IF ins.raised THEN "no-db" ELSE ins.id

\* an HTTPException(400) or an unhandled exception (500); req, synth and
\* insert record what the handler was given and how far it got
ErrorResponse(req, status, synth) ==
    [op |-> "generate", status |-> status, id |-> "", prompt |-> <<>>,
     style |-> None, seed |-> None, width |-> 0, height |-> 0,
     image_data_url |-> NoImage,
     req |-> req, synth |-> synth, insert |-> "none"]

GenerateResponse(req, id, image_data_url, outcome) ==
    [op |-> "generate", status |-> 200, id |-> id,
     prompt |-> strip(req.prompt), style |-> req.style, seed |-> req.seed,
     width |-> req.width, height |-> req.height,
     image_data_url |-> image_data_url,
     req |-> req, synth |-> TRUE, insert |-> outcome]

generate_image ==
    /\ inbox.op = "generate"
    /\ LET req == inbox.req
           img == svg_from_prompt(strip(req.prompt), req.seed,
                                  req.width, req.height, hashSalt)
       IN  IF Rejects(req.prompt)
           THEN /\ outbox' = ErrorResponse(req, 400, FALSE)
                /\ UNCHANGED <<store, nextId>>
           ELSE IF ~img.ok
           THEN /\ outbox' = ErrorResponse(req, 500, TRUE)
                /\ UNCHANGED <<store, nextId>>
           ELSE \E outcome \in InsertOutcomes :
                  LET ins == create_document(store, nextId,
                                             Generation(req, img.url), outcome)
                  IN  /\ store' = ins.store
                      /\ nextId' = IF ins.raised THEN nextId ELSE nextId + 1
                      /\ outbox' = GenerateResponse(req, InsertedId(ins),
                                                    img.url, outcome)
    /\ inbox' = NoMsg
    /\ UNCHANGED <<hashSalt, db>>

----------------------------------------------------------------------------
(* list_generations                                                        *)

\* created_at.isoformat() if created_at else None
isoformat(created_at) ==
    IF created_at = 0 THEN None ELSE <<"T", created_at>>

Item(d) ==
    [id |-> ToString(d._id), prompt |-> d.prompt, style |-> d.style,
     seed |-> d.seed, width |-> d.width, height |-> d.height,
     image_data_url |-> d.image_data_url,
     created_at |-> isoformat(d.created_at)]

\* the loop over docs: the conversion of the failAt-th document raises
\* (failAt = 0: none does); results holds what was appended before
RECURSIVE ConvertDocs(_, _)
ConvertDocs(docs, failAt) ==
    IF docs = <<>> THEN [ok |-> TRUE, results |-> <<>>]
    ELSE IF failAt = 1 THEN [ok |-> FALSE, results |-> <<>>]
    ELSE LET rest == ConvertDocs(Tail(docs), IF failAt = 0 THEN 0 ELSE failAt - 1)
         IN  [ok |-> rest.ok, results |-> <<Item(Head(docs))>> \o rest.results]

reversed(s) == [i \in 1..Len(s) |-> s[Len(s) + 1 - i]]

\* the items returned: the reversed results, or [] from the except branch
ListItemsPartial(queried, conv) ==
    IF queried THEN reversed(conv.results) ELSE <<>>

ListItems(queried, conv) ==
    IF queried /\ conv.ok THEN reversed(conv.results) ELSE <<>>

list_generations ==
    /\ inbox.op = "list"
    /\ \E outcome \in QueryOutcomes :
         LET docs == get_documents(store, inbox.limit)
         IN  \E failAt \in (IF outcome = "ok" THEN 0..Len(docs) ELSE {0}) :
               LET conv == ConvertDocs(docs, failAt)
               IN  outbox' = [op |-> "list", status |-> 200,
                              items |-> ListItems(outcome = "ok", conv),
                              limit |-> inbox.limit,
                              query |-> IF outcome = "ok" /\ failAt > 0
                                        THEN "convert_error" ELSE outcome,
                              failAt |-> failAt]
    /\ inbox' = NoMsg
    /\ UNCHANGED <<store, nextId, hashSalt, db>>

----------------------------------------------------------------------------
(* The client and the process                                              *)

Prompts == UNION {[1..n -> Chars] : n \in 0..MaxPromptLen}
Seeds == {None} \cup {Some(v) : v \in (-MaxSeed)..MaxSeed}

\* the requests of the synthesis specification: every short prompt, seeds
\* absent, zero, negative and positive, dimensions around 0 and around 80
SynthRequests ==
    [prompt : Prompts, style : {None}, seed : Seeds,
     width : {-1, 0, 79, 80, 120}, height : {0, 40, 80, 100}]

\* the requests of the record lifecycle specification
StoreRequests ==
    [prompt : {<<>>, <<" ">>, <<"a">>, <<" ", "a", " ">>},
     style : {None, Some("s")}, seed : {None, Some(1)},
     width : {40, 80}, height : {80}]

Idle == inbox = NoMsg /\ outbox = NoMsg

SendGenerate(reqs) ==
    /\ Idle
    /\ \E req \in reqs : inbox' = [op |-> "generate", req |-> req]
    /\ UNCHANGED <<store, nextId, hashSalt, db, outbox>>

SendList ==
    /\ Idle
    /\ \E limit \in 1..MaxLimit : inbox' = [op |-> "list", limit |-> limit]
    /\ UNCHANGED <<store, nextId, hashSalt, db, outbox>>

Deliver ==
    /\ outbox # NoMsg
    /\ outbox' = NoMsg
    /\ UNCHANGED <<store, nextId, hashSalt, db, inbox>>

\* the process restarts between two calls
Restart(dbs) ==
    /\ Idle
    /\ hashSalt' \in HashSalts
    /\ db' \in dbs
    /\ UNCHANGED <<store, nextId, inbox, outbox>>

InitWith(dbs) ==
    /\ store = <<>>
    /\ nextId = 1
    /\ hashSalt \in HashSalts
    /\ db \in dbs
    /\ inbox = NoMsg
    /\ outbox = NoMsg

\* the record lifecycle: generate and list against a store that may be
\* configured or not and whose calls may fail
Init == InitWith({"up", "none"})

SendStoreRequest == SendGenerate(StoreRequests)

RestartAny == Restart({"up", "none"})

Next ==
    \/ SendStoreRequest
    \/ SendList
    \/ generate_image
    \/ list_generations
    \/ Deliver
    \/ RestartAny

Spec == Init /\ [][Next]_vars

\* the synthesis: generate over the wide request set, by processes that
\* run without a database
InitSynth == InitWith({"none"})

SendSynthRequest == SendGenerate(SynthRequests)

RestartNoDb == Restart({"none"})

NextSynth ==
    \/ SendSynthRequest
    \/ generate_image
    \/ Deliver
    \/ RestartNoDb

SpecSynth == InitSynth /\ [][NextSynth]_vars

----------------------------------------------------------------------------
(* Properties                                                              *)

InsertFailed(r) == r.insert \in {"unavailable", "write_error"}

\* C1: when the insert of an accepted generate request fails (database not
\* available, or write error), the caller still gets a 200 response whose
\* image_data_url is the non-empty image synthesised for the request, and
\* whose id is the sentinel "no-db".
C1_StorageIndependence ==
    (outbox.op = "generate" /\ InsertFailed(outbox)) =>
        /\ outbox.status = 200
        /\ outbox.id = "no-db"
        /\ outbox.image_data_url # NoImage
        /\ outbox.image_data_url =
             svg_from_prompt(strip(outbox.req.prompt), outbox.req.seed,
                             outbox.req.width, outbox.req.height, hashSalt).url

C1_Witness ==
    /\ outbox.op = "generate"
    /\ outbox.insert = "write_error"
    /\ outbox.status = 200
    /\ store # <<>>

\* C2: a generate request whose prompt is empty or only whitespace is
\* answered 400 before synthesis and before any insert: the response has no
\* image and the store is as it was.
C2_BlankPromptRejected ==
    [][(inbox.op = "generate" /\ outbox' # NoMsg
          /\ strip(inbox.req.prompt) = <<>>) =>
        /\ outbox'.status = 400
        /\ outbox'.image_data_url = NoImage
        /\ ~outbox'.synth
        /\ outbox'.insert = "none"
        /\ store' = store
        /\ nextId' = nextId]_vars

C2_Witness ==
    /\ outbox.op = "generate"
    /\ outbox.req.prompt = <<" ">>
    /\ outbox.status = 400
    /\ store # <<>>

\* C3: two generate calls with the same prompt, seed, width and height
\* return the same image_data_url, whatever the storage outcome and whichever
\* process served each: the image of a successful call equals the image of
\* every stored record of an earlier call with the same inputs.
C3_Determinism ==
    (outbox.op = "generate" /\ outbox.status = 200) =>
        \A i \in DOMAIN store :
            (/\ store[i].prompt = outbox.prompt
             /\ store[i].seed = outbox.seed
             /\ store[i].width = outbox.width
             /\ store[i].height = outbox.height)
            => store[i].image_data_url = outbox.image_data_url

\* the stored records created after d
Newer(d) == {e \in Range(store) : e.created_at > d.created_at}

\* C4: a list(limit) whose query succeeds returns min(limit, number of
\* stored records) items, and its i-th item is the record with exactly
\* i - 1 newer records in the store: the limit most recently created
\* records, newest first.
C4_MostRecentNewestFirst ==
    (outbox.op = "list" /\ outbox.query = "ok") =>
        /\ Len(outbox.items) = Min(outbox.limit, Len(store))
        /\ \A i \in DOMAIN outbox.items :
             \E d \in Range(store) :
                /\ ToString(d._id) = outbox.items[i].id
                /\ Cardinality(Newer(d)) = i - 1

\* C5: list answers 200 always, and with no items at all whenever the
\* database is not available, the query fails, or the conversion of a
\* returned record fails.
C5_ReadFallback ==
    outbox.op = "list" =>
        /\ outbox.status = 200
        /\ outbox.query # "ok" => outbox.items = <<>>

C5_Witness ==
    /\ outbox.op = "list"
    /\ outbox.query = "convert_error"
    /\ outbox.failAt >= 2
    /\ outbox.items = <<>>

\* C6: a generate request with a width or height that is not positive is
\* answered 400 before synthesis, with no image and no insert.
C6_NonPositiveDimensionRejected ==
    (outbox.op = "generate"
       /\ (outbox.req.width <= 0 \/ outbox.req.height <= 0)) =>
        /\ outbox.status = 400
        /\ ~outbox.synth
        /\ outbox.image_data_url = NoImage
        /\ outbox.insert = "none"

\* C7: a generate request with a prompt that is non-empty after trimming
\* and a positive width and height is answered 200 with an image.
C7_SynthesisNeverFails ==
    (outbox.op = "generate"
       /\ strip(outbox.req.prompt) # <<>>
       /\ outbox.req.width > 0 /\ outbox.req.height > 0) =>
        /\ outbox.status = 200
        /\ outbox.image_data_url # NoImage

\* C8: every image generate returns holds exactly 18 circles, each with
\* 0 <= cx <= width, 0 <= cy <= height and
\* 20 <= r <= floor(min(width, height) * 0.25).
C8_ShapeCountAndBounds ==
    (outbox.op = "generate" /\ outbox.image_data_url # NoImage) =>
        LET svg == outbox.image_data_url[2]
            w == outbox.req.width
            h == outbox.req.height
        IN  /\ Len(svg.shapes) = 18
            /\ \A i \in DOMAIN svg.shapes :
                 LET c == svg.shapes[i]
                 IN  /\ 0 <= c.cx /\ c.cx <= w
                     /\ 0 <= c.cy /\ c.cy <= h
                     /\ 20 <= c.r /\ c.r <= Min(w, h) \div 4

C8_Witness ==
    /\ outbox.op = "generate"
    /\ outbox.status = 200
    /\ outbox.req.width = 120 /\ outbox.req.height = 100
    /\ \E i \in DOMAIN outbox.image_data_url[2].shapes :
         outbox.image_data_url[2].shapes[i].r > 20

\* C9: when the request carries a seed, zero and negative seeds included,
\* the random stream is the one seeded with that seed reduced modulo
\* 2^SeedBits: the image is the one rendered from that stream.
C9_ExplicitSeedDrivesStream ==
    (outbox.op = "generate" /\ outbox.status = 200 /\ outbox.req.seed # None) =>
        outbox.image_data_url =
            Render(Random(outbox.req.seed[1] % (2 ^ SeedBits)),
                   strip(outbox.req.prompt),
                   outbox.req.width, outbox.req.height).url

\* C10: no step updates or deletes a record or adds more than one; a
\* generate request that is accepted (answered 200) makes one insert
\* attempt, and the record it adds, if any, carries the trimmed prompt, the
\* style, seed, width and height of the request and the image returned; a
\* generate request that is not answered 200, a list call and every other
\* step leave the store as it was.
C10_StoreFrame ==
    [][/\ Len(store) <= Len(store')
       /\ Len(store') <= Len(store) + 1
       /\ SubSeq(store', 1, Len(store)) = store
       /\ IF inbox.op = "generate" /\ outbox' # NoMsg
          THEN IF outbox'.status = 200
               THEN /\ outbox'.insert # "none"
                    /\ (outbox'.insert = "ok") <=> (store' # store)
                    /\ store' # store =>
                         LET d == store'[Len(store')]
                         IN  /\ d.prompt = strip(inbox.req.prompt)
                             /\ d.style = inbox.req.style
                             /\ d.seed = inbox.req.seed
                             /\ d.width = inbox.req.width
                             /\ d.height = inbox.req.height
                             /\ d.image_data_url = outbox'.image_data_url
                             /\ ToString(d._id) = outbox'.id
               ELSE /\ outbox'.insert = "none"
                    /\ store' = store
          ELSE store' = store]_vars

C10_Witness ==
    /\ outbox.op = "generate"
    /\ outbox.insert = "ok"
    /\ outbox.req.prompt = <<" ", "a", " ">>
    /\ Len(store) = 2

====
